---- MODULE Spec2Model ----
(***************************************************************************)
(* Model of upper: src/upper/__init__.py (package managers, _exec, main)   *)
(* and src/upper/logger.py (the leveled line writer).                      *)
(*                                                                         *)
(* A run of main is a sequence of steps; each external command is started  *)
(* by one step and its exit is observed by the next one (subprocess.run    *)
(* blocks).  Everything observable is appended to `trace`.                 *)
(*                                                                         *)
(* The environment chooses: whether --verbose is given, os.environ, the    *)
(* return code of every command, the text the npm outdated query prints,   *)
(* and whether the reboot marker file exists.  Every executable is taken   *)
(* to exist and to start.  A run begins where parse_args has returned: the *)
(* exits argparse makes on its own (--version, a usage error) come before  *)
(* the driver and are not part of it.                                      *)
(***************************************************************************)
EXTENDS Integers, Sequences, FiniteSets, TLC

VARIABLES
    pc,          \* position of the interpreter in main / in the harness of _exec
    idx,         \* index of the current manager in the running for-loop of main
    level,       \* logger._level
    os_environ,  \* os.environ of this process
    child,       \* the external process subprocess.run is waiting for
    result,      \* _exec: the CompletedProcess of the last child (<<>> if none)
    packages,    \* NPM.upgrade: the parsed dict, as its ordered items
    pkg_i,       \* NPM.upgrade: position in packages.items()
    trace,       \* everything observable the run has done so far, in order
    raised,      \* the exception that left main uncaught ("none" if none)
    exit_code,   \* <<>> while running, <<code>> once the process has exited
    call         \* harness of _exec: the arguments of the call under test

vars == <<pc, idx, level, os_environ, child, result, packages, pkg_i, trace,
          raised, exit_code, call>>

----------------------------------------------------------------------------
(* Bounds of the model *)

\* external commands exit with a code in 0..MaxRetCode, or are killed (-1)
MaxRetCode == 2
\* the npm outdated JSON text has at most MaxEntries members
MaxEntries == 2
\* the client of the logger makes at most MaxLogCalls log calls
MaxLogCalls == 2

RetCodes == {-1} \cup (0..MaxRetCode)
PackageNames == {"foo", "bar"}

----------------------------------------------------------------------------
(* Paths *)

USR_BIN_DIR == "/usr/bin"
SUDO_EXE == USR_BIN_DIR \o "/" \o "sudo"
APT_GET_EXE == USR_BIN_DIR \o "/" \o "apt-get"
SNAP_EXE == USR_BIN_DIR \o "/" \o "snap"
NPM_EXE == USR_BIN_DIR \o "/" \o "npm"
PIPX_EXE == USR_BIN_DIR \o "/" \o "pipx"

----------------------------------------------------------------------------
(* Events of the trace: one record shape, the fields a kind does not use   *)
(* keep their defaults.                                                    *)

Ev(kind) ==
    [kind |-> kind, pm |-> "", method |-> "", level |-> "", prefix |-> "",
     label |-> "", infix |-> "", suffix |-> "", text |-> "", cmd |-> <<>>,
     capture |-> FALSE, env |-> <<>>, rc |-> 0, out |-> <<>>, ok |-> FALSE,
     exc |-> ""]

CallEv(pm, method) == [Ev("call") EXCEPT !.pm = pm, !.method = method]
ReturnEv(pm, method) == [Ev("return") EXCEPT !.pm = pm, !.method = method]
PrintEv(text) == [Ev("print") EXCEPT !.text = text]
RunEv(cmd, capture, env) ==
    [Ev("run") EXCEPT !.cmd = cmd, !.capture = capture, !.env = env]
ExitEv(cmd, rc) == [Ev("exit") EXCEPT !.cmd = cmd, !.rc = rc]
\* the exit of a child whose standard output was captured
CapturedExitEv(cmd, rc, out) == [ExitEv(cmd, rc) EXCEPT !.out = <<out>>]
IsFileEv(path, ok) == [Ev("is_file") EXCEPT !.text = path, !.ok = ok]
TracebackEv(exc) == [Ev("traceback") EXCEPT !.exc = exc]

----------------------------------------------------------------------------
(* logger.py *)

Levels == {"DEBUG", "INFO", "WARNING", "ERROR"}

\* class Level(Enum): enum.auto() numbers the members from 1
LevelValue(l) ==
    CASE l = "DEBUG" -> 1
      [] l = "INFO" -> 2
      [] l = "WARNING" -> 3
      [] l = "ERROR" -> 4

LEVEL_INFOS(l) ==
    CASE l = "DEBUG" ->
           [name |-> "debug: ", prefix |-> "ESC[2m", infix |-> "", suffix |-> "ESC[0m"]
      [] l = "INFO" ->
           [name |-> "", prefix |-> "ESC[1;34m", infix |-> "", suffix |-> "ESC[0m"]
      [] l = "WARNING" ->
           [name |-> "error: ", prefix |-> "ESC[1;33m", infix |-> "ESC[0m", suffix |-> ""]
      [] l = "ERROR" ->
           [name |-> "error: ", prefix |-> "ESC[1;31m", infix |-> "ESC[0m", suffix |-> ""]

\* faulty variant: a line at the current verbosity is dropped as well
SuppressedInclusive(l, cur) == LevelValue(l) <= LevelValue(cur)

\* _print's early return: the line is dropped
Suppressed(l, cur) == LevelValue(l) < LevelValue(cur)

\* faulty variant: the builder is invoked before the level is tested
logger_print_eager(l, message, lazy, cur) ==
    (IF lazy THEN <<[Ev("build") EXCEPT !.text = message]>> ELSE <<>>)
    \o (IF LevelValue(l) < LevelValue(cur)
        THEN <<>>
        ELSE <<[Ev("log") EXCEPT !.level = l,
                                 !.prefix = LEVEL_INFOS(l).prefix,
                                 !.label = LEVEL_INFOS(l).name,
                                 !.infix = LEVEL_INFOS(l).infix,
                                 !.suffix = LEVEL_INFOS(l).suffix,
                                 !.text = message]>>)

\* _print(level, message) under verbosity cur: the events it adds.  A lazy
\* message is a builder, invoked ("build") only when the line is written.
logger_print(l, message, lazy, cur) ==
    IF Suppressed(l, cur)
    THEN <<>>
    ELSE (IF lazy THEN <<[Ev("build") EXCEPT !.text = message]>> ELSE <<>>)
         \o <<[Ev("log") EXCEPT !.level = l,
                                !.prefix = LEVEL_INFOS(l).prefix,
                                !.label = LEVEL_INFOS(l).name,
                                !.infix = LEVEL_INFOS(l).infix,
                                !.suffix = LEVEL_INFOS(l).suffix,
                                !.text = message]>>

logger_debug(message, lazy, cur) == logger_print("DEBUG", message, lazy, cur)
logger_info(message, lazy, cur) == logger_print("INFO", message, lazy, cur)
logger_warning(message, lazy, cur) == logger_print("WARNING", message, lazy, cur)
logger_error(message, lazy, cur) == logger_print("ERROR", message, lazy, cur)

\* set_level(level)
set_level(l) == l

----------------------------------------------------------------------------
(* _exec *)

\* valid_return_codes: None, or a set of codes
NoCodes == [isNone |-> TRUE, codes |-> {}]
Codes(S) == [isNone |-> FALSE, codes |-> S]

\* env: None, or a dict of overrides
NoEnv == [isNone |-> TRUE, vars |-> <<>>]
Env(d) == [isNone |-> FALSE, vars |-> d]

\* dict union a | b: b's keys win
DictUnion(a, b) ==
    [k \in (DOMAIN a) \cup (DOMAIN b) |-> IF k \in DOMAIN b THEN b[k] ELSE a[k]]

\* shlex.quote: words made of safe characters are kept, the empty word is ''
ShlexQuote(w) == IF w = "" THEN "''" ELSE w

RECURSIVE ShlexJoin(_)
ShlexJoin(cmd) ==
    IF cmd = <<>> THEN ""
    ELSE IF Len(cmd) = 1 THEN ShlexQuote(cmd[1])
    ELSE ShlexQuote(cmd[1]) \o " " \o ShlexJoin(Tail(cmd))

\* faulty variant: the separator after the elevation tool is left out
SudoCmdNoSeparator(cmd, use_sudo) == IF use_sudo THEN <<SUDO_EXE>> \o cmd ELSE cmd

\* line 165-166: the command line that is run
SudoCmd(cmd, use_sudo) == IF use_sudo THEN <<SUDO_EXE, "--">> \o cmd ELSE cmd

\* faulty variant: the overrides replace the environment
ChildEnvReplaced(environ, env) == IF env.isNone THEN environ ELSE env.vars

\* line 171-172: the environment the child gets
ChildEnv(environ, env) ==
    IF env.isNone THEN environ ELSE DictUnion(environ, env.vars)

\* lines 165-175, up to the start of the child: the events added
ExecStartEvents(cmd, use_sudo, capture_stdout, env, cur, environ) ==
    logger_debug("executing: " \o ShlexJoin(SudoCmd(cmd, use_sudo)), TRUE, cur)
    \o <<RunEv(SudoCmd(cmd, use_sudo), capture_stdout, ChildEnv(environ, env))>>

\* the child subprocess.run waits for
ExecChild(cmd, use_sudo, capture_stdout, valid_return_codes) ==
    [cmd |-> SudoCmd(cmd, use_sudo), capture |-> capture_stdout,
     valid |-> valid_return_codes]

NoChild == [cmd |-> <<>>, capture |-> FALSE, valid |-> NoCodes]

\* subprocess.run returned: the exit code, and the standard output if captured
CompletedProcess(capture_stdout, rc, out) ==
    [returncode |-> rc, stdout |-> IF capture_stdout THEN <<out>> ELSE <<>>]

\* faulty variant: the acceptable codes are ignored, every non-zero code raises
ExecRaisesOnNonZero(valid_return_codes, rc) == rc # 0

\* CompletedProcess.check_returncode: raises on a non-zero code
CheckReturncodeRaises(rc) == rc # 0

\* faulty variant: the return code is never checked
ExecRaisesNever(valid_return_codes, rc) == FALSE

\* lines 177-178: does _exec raise CalledProcessError for this exit code?
ExecRaises(valid_return_codes, rc) ==
    IF valid_return_codes.isNone \/ rc \notin valid_return_codes.codes
    THEN CheckReturncodeRaises(rc)
    ELSE FALSE

\* line 180: what _exec returns
ExecValue(capture_stdout, out) == IF capture_stdout THEN out ELSE ""

----------------------------------------------------------------------------
(* JSON: the text npm prints, and json.loads of it *)

\* A JSON text, by its syntax: an object text lists its members in the order
\* written (a name may be written twice); "invalid" is text that is no JSON.
JObject(members) == [kind |-> "object", members |-> members, str |-> ""]
JString(s) == [kind |-> "string", members |-> <<>>, str |-> s]
JArray == [kind |-> "array", members |-> <<>>, str |-> ""]
JNull == [kind |-> "null", members |-> <<>>, str |-> ""]
JInvalid == [kind |-> "invalid", members |-> <<>>, str |-> ""]

\* Python values: a dict is its items in insertion order, keys unique
PyDict(items) == [type |-> "dict", items |-> items, str |-> ""]
PyStr(s) == [type |-> "str", items |-> <<>>, str |-> s]
PyList == [type |-> "list", items |-> <<>>, str |-> ""]
PyNone == [type |-> "NoneType", items |-> <<>>, str |-> ""]

DictHas(items, k) == \E i \in 1..Len(items) : items[i][1] = k
DictGet(items, k) == items[CHOOSE i \in 1..Len(items) : items[i][1] = k][2]

\* d[k] = v: an existing key keeps its position and takes the new value
DictSet(items, k, v) ==
    IF DictHas(items, k)
    THEN [i \in 1..Len(items) |-> IF items[i][1] = k THEN <<k, v>> ELSE items[i]]
    ELSE Append(items, <<k, v>>)

RECURSIVE JsonValue(_)
RECURSIVE JsonMembers(_)
\* the dict json.loads builds from an object's members, left to right
JsonMembers(members) ==
    IF members = <<>> THEN <<>>
    ELSE LET n == Len(members)
         IN DictSet(JsonMembers(SubSeq(members, 1, n - 1)),
                    members[n][1], JsonValue(members[n][2]))

\* json.loads of a valid text
JsonValue(doc) ==
    CASE doc.kind = "object" -> PyDict(JsonMembers(doc.members))
      [] doc.kind = "string" -> PyStr(doc.str)
      [] doc.kind = "array" -> PyList
      [] doc.kind = "null" -> PyNone

\* _parse_json: json.loads raises JSONDecodeError on text that is no JSON
parse_json(json_str) ==
    IF json_str.kind = "invalid"
    THEN [exc |-> "JSONDecodeError", value |-> PyNone]
    ELSE [exc |-> "none", value |-> JsonValue(json_str)]

isinstance_dict(v) == v.type = "dict"

\* The texts the npm outdated query may print
VersionsObject(current, latest) ==
    JObject(<< <<"current", JString(current)>>, <<"latest", JString(latest)>> >>)

VersionTexts ==
    { VersionsObject("1.0", "1.1"),
      VersionsObject("1.0", "2.0"),
      JObject(<< <<"current", JString("1.0")>>, <<"latest", JString("1.1")>>,
                 <<"latest", JString("2.0")>> >>),
      JObject(<< <<"current", JString("1.0")>> >>),
      JString("1.0") }

MemberSeqs ==
    UNION { [1..n -> PackageNames \X VersionTexts] : n \in 0..MaxEntries }

StdoutTexts ==
    { JObject(m) : m \in MemberSeqs } \cup {JArray, JNull, JInvalid}

----------------------------------------------------------------------------
(* The package managers and main *)

\* faulty variant: the list in another order
PACKAGE_MANAGERS_reordered == <<"APT", "npm", "Snap", "pipx">>

PACKAGE_MANAGERS == <<"APT", "Snap", "npm", "pipx">>

\* os.environ at process start
Environs == { [PATH |-> "/usr/bin"], [PATH |-> "/usr/bin", USE_EMOJI |-> "1"] }

\* faulty variant: the exception is swallowed and main returns None
ExitStatusAlwaysZero(exc) == 0

\* the exit status of the interpreter: sys.exit(main()) with main's None, or
\* an exception that nothing caught
ExitStatus(exc) == IF exc = "none" THEN 0 ELSE 1

Init ==
    /\ pc = "parse_args"
    /\ idx = 1
    /\ level = "INFO"
    /\ os_environ \in Environs
    /\ child = NoChild
    /\ result = <<>>
    /\ packages = <<>>
    /\ pkg_i = 0
    /\ trace = <<>>
    /\ raised = "none"
    /\ exit_code = <<>>
    /\ call = <<>>

\* an exception leaves main: traceback, exit status 1
\* (packages and pkg_i are the caller's to set)
Propagate(exc, events) ==
    /\ trace' = trace \o events \o <<TracebackEv(exc)>>
    /\ raised' = exc
    /\ exit_code' = <<ExitStatus(exc)>>
    /\ pc' = "exited"
    /\ child' = NoChild
    /\ UNCHANGED <<idx, level, os_environ, call>>

\* faulty variant: returning from an upgrade puts the verbosity back to INFO
UpgradeReturnedResetsLevel(events) ==
    /\ trace' = trace \o events \o <<ReturnEv(PACKAGE_MANAGERS[idx], "upgrade")>>
    /\ IF idx < Len(PACKAGE_MANAGERS)
       THEN pc' = "for_upgrade" /\ idx' = idx + 1
       ELSE pc' = "for_post_upgrade" /\ idx' = 1
    /\ child' = NoChild
    /\ level' = "INFO"
    /\ UNCHANGED <<os_environ, raised, exit_code, call>>

\* pm.upgrade() returned: the first loop goes on, or the second loop starts
UpgradeReturned(events) ==
    /\ trace' = trace \o events \o <<ReturnEv(PACKAGE_MANAGERS[idx], "upgrade")>>
    /\ IF idx < Len(PACKAGE_MANAGERS)
       THEN pc' = "for_upgrade" /\ idx' = idx + 1
       ELSE pc' = "for_post_upgrade" /\ idx' = 1
    /\ child' = NoChild
    /\ UNCHANGED <<level, os_environ, raised, exit_code, call>>

\* the first loop of main is at manager pm
AtUpgrade(pm) == pc = "for_upgrade" /\ PACKAGE_MANAGERS[idx] = pm

\* the second loop of main is at manager pm
AtPostUpgrade(pm) == pc = "for_post_upgrade" /\ PACKAGE_MANAGERS[idx] = pm

\* faulty variant: the name is logged after the upgrade has started
UpgradeStartLogsLate(pm, cmd, use_sudo, capture_stdout, valid_return_codes, env, at) ==
    /\ trace' = trace \o <<CallEv(pm, "upgrade")>>
                \o ExecStartEvents(cmd, use_sudo, capture_stdout, env, level, os_environ)
                \o logger_info(pm, FALSE, level)
    /\ child' = ExecChild(cmd, use_sudo, capture_stdout, valid_return_codes)
    /\ pc' = at
    /\ UNCHANGED <<idx, level, os_environ, result, packages, pkg_i, raised,
                   exit_code, call>>

\* logger.info(pm.name); pm.upgrade() up to the start of its first command
UpgradeStart(pm, cmd, use_sudo, capture_stdout, valid_return_codes, env, at) ==
    /\ trace' = trace \o logger_info(pm, FALSE, level) \o <<CallEv(pm, "upgrade")>>
                \o ExecStartEvents(cmd, use_sudo, capture_stdout, env, level, os_environ)
    /\ child' = ExecChild(cmd, use_sudo, capture_stdout, valid_return_codes)
    /\ pc' = at
    /\ UNCHANGED <<idx, level, os_environ, result, packages, pkg_i, raised,
                   exit_code, call>>

\* the command of a manager with one command exits: _exec returns or raises
UpgradeFinish ==
    /\ \E rc \in RetCodes :
         /\ result' = CompletedProcess(child.capture, rc, "")
         /\ IF ExecRaises(child.valid, rc)
            THEN Propagate("CalledProcessError", <<ExitEv(child.cmd, rc)>>)
            ELSE UpgradeReturned(<<ExitEv(child.cmd, rc)>>)
    /\ UNCHANGED <<packages, pkg_i>>

\* main, lines 142-145: --verbose given or not
Main_parse_args ==
    /\ pc = "parse_args"
    /\ \E verbose \in BOOLEAN :
         level' = IF verbose THEN set_level("DEBUG") ELSE level
    /\ pc' = "for_upgrade"
    /\ UNCHANGED <<idx, os_environ, child, result, packages, pkg_i, trace,
                   raised, exit_code, call>>

\* APT.upgrade, started from main's first loop
APT_upgrade ==
    /\ AtUpgrade("APT")
    /\ UpgradeStart("APT",
                    <<APT_GET_EXE, "upgrade", "--update", "--assume-yes",
                      "--verbose-versions">>,
                    TRUE, FALSE, NoCodes, NoEnv, "APT_exec")

APT_upgrade_exit ==
    /\ pc = "APT_exec"
    /\ UpgradeFinish

\* faulty variant: snap refresh is started without elevation
Snap_upgrade_unprivileged ==
    /\ AtUpgrade("Snap")
    /\ UpgradeStart("Snap", <<SNAP_EXE, "refresh">>, FALSE, FALSE, NoCodes, NoEnv,
                    "Snap_exec")

\* Snap.upgrade
Snap_upgrade ==
    /\ AtUpgrade("Snap")
    /\ UpgradeStart("Snap", <<SNAP_EXE, "refresh">>, TRUE, FALSE, NoCodes, NoEnv,
                    "Snap_exec")

Snap_upgrade_exit ==
    /\ pc = "Snap_exec"
    /\ UpgradeFinish

\* Pipx.upgrade
Pipx_upgrade ==
    /\ AtUpgrade("pipx")
    /\ UpgradeStart("pipx", <<PIPX_EXE, "upgrade-all">>, FALSE, FALSE, NoCodes,
                    Env([USE_EMOJI |-> "0"]), "Pipx_exec")

Pipx_upgrade_exit ==
    /\ pc = "Pipx_exec"
    /\ UpgradeFinish

\* NPM.upgrade, lines 84-88, up to the start of the outdated query
NPM_upgrade ==
    /\ AtUpgrade("npm")
    /\ UpgradeStart("npm", <<NPM_EXE, "outdated", "--global", "--json">>,
                    FALSE, TRUE, Codes({1}), NoEnv, "NPM_outdated_exec")

\* str() of a value inside an f-string
FormatValue(v) == IF v.type = "str" THEN v.str ELSE v.type

\* faulty variant: the install names the current version
NpmInstallCmdCurrent(package, versions) ==
    <<NPM_EXE, "install", "--global", "--no-audit", "--no-fund", "--silent",
      package \o "@" \o FormatValue(DictGet(versions.items, "current"))>>

\* lines 102-113: the install command of one item
NpmInstallCmd(package, versions) ==
    <<NPM_EXE, "install", "--global", "--no-audit", "--no-fund", "--silent",
      package \o "@" \o FormatValue(DictGet(versions.items, "latest"))>>

\* NPM.upgrade, lines 97-115 for the i-th item, up to the start of its install;
\* after the last item the method returns
NpmNextItem(items, i, events) ==
    /\ packages' = items
    /\ pkg_i' = i
    /\ IF i > Len(items)
       THEN UpgradeReturned(events)
       ELSE LET package == items[i][1]
                versions == items[i][2]
            IN IF ~isinstance_dict(versions)
               THEN Propagate("TypeError", events)
               ELSE IF ~DictHas(versions.items, "current")
                       \/ ~DictHas(versions.items, "latest")
               THEN Propagate("KeyError", events)
               ELSE LET current == FormatValue(DictGet(versions.items, "current"))
                        latest == FormatValue(DictGet(versions.items, "latest"))
                        cmd == NpmInstallCmd(package, versions)
                    IN /\ trace' = trace \o events
                           \o <<PrintEv("Upgrading " \o package \o ": " \o current
                                        \o " -> " \o latest)>>
                           \o ExecStartEvents(cmd, TRUE, FALSE, NoEnv, level, os_environ)
                       /\ child' = ExecChild(cmd, TRUE, FALSE, NoCodes)
                       /\ pc' = "NPM_install_exec"
                       /\ UNCHANGED <<idx, level, os_environ, raised, exit_code, call>>

\* faulty variant: the output is parsed before the exit code is looked at
NPM_outdated_exit_parses_first ==
    /\ pc = "NPM_outdated_exec"
    /\ \E rc \in RetCodes, out \in StdoutTexts :
         /\ result' = CompletedProcess(child.capture, rc, out)
         /\ LET events == <<CapturedExitEv(child.cmd, rc, out)>>
                parsed == parse_json(ExecValue(child.capture, out))
            IN IF parsed.exc # "none"
               THEN Propagate(parsed.exc, events) /\ UNCHANGED <<packages, pkg_i>>
               ELSE IF ExecRaises(child.valid, rc)
               THEN Propagate("CalledProcessError", events)
                    /\ UNCHANGED <<packages, pkg_i>>
               ELSE IF ~isinstance_dict(parsed.value)
               THEN Propagate("TypeError", events) /\ UNCHANGED <<packages, pkg_i>>
               ELSE IF parsed.value.items = <<>>
               THEN /\ UpgradeReturned(events
                                       \o <<PrintEv("All packages are up-to-date.")>>)
                    /\ packages' = <<>>
                    /\ pkg_i' = 0
               ELSE NpmNextItem(parsed.value.items, 1, events)

\* NPM.upgrade, lines 84-115: the outdated query exits; its output is parsed
\* and the first install is started
NPM_outdated_exit ==
    /\ pc = "NPM_outdated_exec"
    /\ \E rc \in RetCodes, out \in StdoutTexts :
         /\ result' = CompletedProcess(child.capture, rc, out)
         /\ LET events == <<CapturedExitEv(child.cmd, rc, out)>>
                parsed == parse_json(ExecValue(child.capture, out))
            IN IF ExecRaises(child.valid, rc)
               THEN Propagate("CalledProcessError", events)
                    /\ UNCHANGED <<packages, pkg_i>>
               ELSE IF parsed.exc # "none"
               THEN Propagate(parsed.exc, events) /\ UNCHANGED <<packages, pkg_i>>
               ELSE IF ~isinstance_dict(parsed.value)
               THEN Propagate("TypeError", events) /\ UNCHANGED <<packages, pkg_i>>
               ELSE IF parsed.value.items = <<>>
               THEN /\ UpgradeReturned(events
                                       \o <<PrintEv("All packages are up-to-date.")>>)
                    /\ packages' = <<>>
                    /\ pkg_i' = 0
               ELSE NpmNextItem(parsed.value.items, 1, events)

\* NPM.upgrade, lines 97-115: an install exits; the loop goes to the next item
NPM_install_exit ==
    /\ pc = "NPM_install_exec"
    /\ \E rc \in RetCodes :
         /\ result' = CompletedProcess(child.capture, rc, "")
         /\ IF ExecRaises(child.valid, rc)
            THEN Propagate("CalledProcessError", <<ExitEv(child.cmd, rc)>>)
                 /\ UNCHANGED <<packages, pkg_i>>
            ELSE NpmNextItem(packages, pkg_i + 1, <<ExitEv(child.cmd, rc)>>)

APT_REBOOT_REQUIRED_FILE == "/run/reboot-required"

\* pm.post_upgrade() returned: the second loop goes on, or main returns None
PostUpgradeReturned(pm, events) ==
    /\ LET done == trace \o <<CallEv(pm, "post_upgrade")>> \o events
                   \o <<ReturnEv(pm, "post_upgrade")>>
       IN IF idx < Len(PACKAGE_MANAGERS)
          THEN /\ trace' = done
               /\ idx' = idx + 1
               /\ UNCHANGED <<pc, exit_code>>
          ELSE /\ trace' = done \o <<ReturnEv("", "main")>>
               /\ pc' = "exited"
               /\ exit_code' = <<ExitStatus(raised)>>
               /\ UNCHANGED idx
    /\ UNCHANGED <<level, os_environ, child, result, packages, pkg_i, raised, call>>

\* faulty variant: the test of the marker file is inverted
AptPostUpgradeEventsInverted(is_file, cur) ==
    <<IsFileEv(APT_REBOOT_REQUIRED_FILE, is_file)>>
    \o (IF is_file THEN <<>>
        ELSE logger_warning("A reboot is required.", FALSE, cur))

\* APT.post_upgrade, lines 63-66, given what is_file() answers
AptPostUpgradeEvents(is_file, cur) ==
    <<IsFileEv(APT_REBOOT_REQUIRED_FILE, is_file)>>
    \o (IF ~is_file THEN <<>>
        ELSE logger_warning("A reboot is required.", FALSE, cur))

\* APT.post_upgrade: the marker file is there or not
APT_post_upgrade ==
    /\ AtPostUpgrade("APT")
    /\ \E is_file \in BOOLEAN :
         PostUpgradeReturned("APT", AptPostUpgradeEvents(is_file, level))

\* PackageManager.post_upgrade, inherited by Snap, NPM and Pipx
PackageManager_post_upgrade ==
    /\ pc = "for_post_upgrade"
    /\ PACKAGE_MANAGERS[idx] \in {"Snap", "npm", "pipx"}
    /\ PostUpgradeReturned(PACKAGE_MANAGERS[idx], <<>>)

Next ==
    \/ Main_parse_args
    \/ APT_upgrade
    \/ APT_upgrade_exit
    \/ Snap_upgrade
    \/ Snap_upgrade_exit
    \/ NPM_upgrade
    \/ NPM_outdated_exit
    \/ NPM_install_exit
    \/ Pipx_upgrade
    \/ Pipx_upgrade_exit
    \/ APT_post_upgrade
    \/ PackageManager_post_upgrade

Spec == Init /\ [][Next]_vars

\* The interpreter runs main step by step and every external command exits:
\* a step that can be taken is taken.
LiveSpec == Spec /\ WF_vars(Next)

----------------------------------------------------------------------------
(* _exec on its own: one call with arguments drawn from small sets *)

ExecCmds ==
    { <<SNAP_EXE, "refresh">>,
      <<NPM_EXE, "outdated", "--global", "--json">>,
      <<SUDO_EXE, "--", "true">> }

ExecValidSets == {NoCodes} \cup { Codes(S) : S \in SUBSET RetCodes }

ExecEnvs == {NoEnv, Env([USE_EMOJI |-> "0"])}

\* what the child may have written to its standard output
ExecOutputs == {"", "out"}

ExecInit ==
    /\ pc = "exec_call"
    /\ call \in [cmd : ExecCmds, use_sudo : BOOLEAN, capture_stdout : BOOLEAN,
                 valid_return_codes : ExecValidSets, env : ExecEnvs, result : {""}]
    /\ level \in {"INFO", "DEBUG"}
    /\ os_environ \in Environs
    /\ idx = 1
    /\ child = NoChild
    /\ result = <<>>
    /\ packages = <<>>
    /\ pkg_i = 0
    /\ trace = <<>>
    /\ raised = "none"
    /\ exit_code = <<>>

\* _exec, lines 165-175: the child is started
Exec_run ==
    /\ pc = "exec_call"
    /\ trace' = trace \o ExecStartEvents(call.cmd, call.use_sudo, call.capture_stdout,
                                         call.env, level, os_environ)
    /\ child' = ExecChild(call.cmd, call.use_sudo, call.capture_stdout,
                          call.valid_return_codes)
    /\ pc' = "exec_running"
    /\ UNCHANGED <<idx, level, os_environ, result, packages, pkg_i, raised,
                   exit_code, call>>

\* _exec, lines 175-180: the child exits; _exec returns or raises
Exec_exit ==
    /\ pc = "exec_running"
    /\ \E rc \in RetCodes, out \in ExecOutputs :
         /\ result' = CompletedProcess(child.capture, rc, out)
         /\ trace' = Append(trace, ExitEv(child.cmd, rc))
         /\ IF ExecRaises(child.valid, rc)
            THEN /\ raised' = "CalledProcessError"
                 /\ pc' = "exec_raised"
                 /\ UNCHANGED call
            ELSE /\ call' = [call EXCEPT !.result = ExecValue(child.capture, out)]
                 /\ pc' = "exec_returned"
                 /\ UNCHANGED raised
    /\ child' = NoChild
    /\ UNCHANGED <<idx, level, os_environ, packages, pkg_i, exit_code>>

ExecNext == Exec_run \/ Exec_exit

ExecSpec == ExecInit /\ [][ExecNext]_vars

----------------------------------------------------------------------------
(* The logger module on its own: a client sets the verbosity, once, or    *)
(* leaves the default, and makes log calls at any level.                  *)

\* one of debug(), info(), warning(), error() is entered
LogCallEv(l) == [Ev("call") EXCEPT !.method = "log", !.level = l]

\* logger.debug / info / warning / error, picked by level
LoggerCall(l, message, lazy, cur) ==
    CASE l = "DEBUG" -> logger_debug(message, lazy, cur)
      [] l = "INFO" -> logger_info(message, lazy, cur)
      [] l = "WARNING" -> logger_warning(message, lazy, cur)
      [] l = "ERROR" -> logger_error(message, lazy, cur)

LogInit ==
    /\ pc = "log_start"
    /\ level = "INFO"
    /\ os_environ = <<>>
    /\ idx = 1
    /\ child = NoChild
    /\ result = <<>>
    /\ packages = <<>>
    /\ pkg_i = 0
    /\ trace = <<>>
    /\ raised = "none"
    /\ exit_code = <<>>
    /\ call = <<>>

\* set_level(l), before the first log call
Log_set_level ==
    /\ pc = "log_start"
    /\ \E l \in Levels : level' = set_level(l)
    /\ pc' = "log_ready"
    /\ UNCHANGED <<idx, os_environ, child, result, packages, pkg_i, trace,
                   raised, exit_code, call>>

\* a log call at any level, the message a string or a builder
Log_call ==
    /\ pc \in {"log_start", "log_ready"}
    /\ Len(SelectSeq(trace, LAMBDA e : e.kind = "call")) < MaxLogCalls
    /\ \E l \in Levels, lazy \in BOOLEAN :
         trace' = trace \o <<LogCallEv(l)>> \o LoggerCall(l, "message", lazy, level)
    /\ pc' = "log_ready"
    /\ UNCHANGED <<idx, level, os_environ, child, result, packages, pkg_i,
                   raised, exit_code, call>>

LogNext == Log_set_level \/ Log_call

LogSpec == LogInit /\ [][LogNext]_vars

----------------------------------------------------------------------------
(* Reading the trace *)

\* the order the specification gives the managers
ManagerOrder == <<"APT", "Snap", "npm", "pipx">>

PositionOf(pm) == CHOOSE n \in 1..Len(ManagerOrder) : ManagerOrder[n] = pm

IsCall(e, method) == e.kind = "call" /\ e.method = method
IsReturn(e, method) == e.kind = "return" /\ e.method = method
IsUpgradeCall(e) == IsCall(e, "upgrade")
IsPostUpgradeCall(e) == IsCall(e, "post_upgrade")

Contains(cmd, word) == \E i \in 1..Len(cmd) : cmd[i] = word

\* the exit codes a manager's command may end with and still count as success:
\* 0, and 1 for the npm outdated query
AcceptableExit(e) == e.rc = 0 \/ (e.rc = 1 /\ Contains(e.cmd, "outdated"))

BadExit(e) == e.kind = "exit" /\ ~AcceptableExit(e)

\* the manager whose upgrade was running when event k happened
Owner(k) ==
    LET j == CHOOSE j \in 1..k :
                 /\ IsUpgradeCall(trace[j])
                 /\ \A l \in (j + 1)..k : ~IsUpgradeCall(trace[l])
    IN trace[j].pm

UpgradeCalled(pm) ==
    \E j \in DOMAIN trace : IsUpgradeCall(trace[j]) /\ trace[j].pm = pm

UpgradeReturnedBefore(pm, i) ==
    \E k \in 1..(i - 1) :
        /\ IsReturn(trace[k], "upgrade") /\ trace[k].pm = pm
        /\ \E j \in 1..(k - 1) : IsUpgradeCall(trace[j]) /\ trace[j].pm = pm

HasTraceback == \E j \in DOMAIN trace : trace[j].kind = "traceback"

\* the upgrade of the n-th manager failed: its command ended with an
\* unacceptable code, or an exception left it
UpgradeFailed(n) ==
    \/ \E k \in DOMAIN trace :
           BadExit(trace[k]) /\ Owner(k) = ManagerOrder[n]
    \/ /\ HasTraceback
       /\ UpgradeCalled(ManagerOrder[n])
       /\ \A m \in (n + 1)..Len(ManagerOrder) : ~UpgradeCalled(ManagerOrder[m])

PostUpgradeCalls ==
    LET calls == SelectSeq(trace, IsPostUpgradeCall)
    IN [i \in 1..Len(calls) |-> calls[i].pm]

IsPrefix(s, t) == Len(s) <= Len(t) /\ s = SubSeq(t, 1, Len(s))

AllUpgradesSucceeded ==
    \A n \in 1..Len(ManagerOrder) :
        UpgradeReturnedBefore(ManagerOrder[n], Len(trace) + 1)

ExitedWith(code) == pc = "exited" /\ exit_code = <<code>>
ExitedNonZero == pc = "exited" /\ Len(exit_code) = 1 /\ exit_code[1] # 0

----------------------------------------------------------------------------
(* Claims *)

\* C1: a post_upgrade is invoked only after the upgrade of every manager of
\* the list was invoked and returned, every command having ended with an
\* acceptable code; a run in which an upgrade failed has no post_upgrade call.
C1_PostUpgradeOnlyAfterAllUpgrades ==
    \A i \in DOMAIN trace :
        IsPostUpgradeCall(trace[i]) =>
            /\ \A n \in 1..Len(ManagerOrder) :
                   UpgradeReturnedBefore(ManagerOrder[n], i)
            /\ \A j \in DOMAIN trace : ~BadExit(trace[j])
            /\ ~HasTraceback
            /\ raised = "none"

C1_Witness ==
    \E i \in DOMAIN trace : IsPostUpgradeCall(trace[i]) /\ trace[i].pm = "pipx"

\* C2: if the upgrade of the manager at position n fails, the process exits
\* with a non-zero code and no manager at a later position has its upgrade
\* invoked.
C2_AbortOnFirstFailure ==
    \A n \in 1..Len(ManagerOrder) :
        UpgradeFailed(n) =>
            /\ ExitedNonZero
            /\ \A i \in DOMAIN trace :
                   IsUpgradeCall(trace[i]) => PositionOf(trace[i].pm) <= n

C2_Witness ==
    /\ UpgradeFailed(2)
    /\ \E k \in DOMAIN trace : BadExit(trace[k])
    /\ pc = "exited"

\* C3: post_upgrade calls happen in list order, at most once per manager; when
\* every upgrade has succeeded and the process has exited, the exit code is 0
\* and post_upgrade was invoked exactly once per manager: APT, Snap, npm, pipx.
C3_AllSucceededExitZero ==
    /\ IsPrefix(PostUpgradeCalls, ManagerOrder)
    /\ (pc = "exited" /\ AllUpgradesSucceeded) =>
           /\ exit_code = <<0>>
           /\ PostUpgradeCalls = ManagerOrder

C3_Witness ==
    /\ ExitedWith(0)
    /\ AllUpgradesSucceeded
    /\ Len(PostUpgradeCalls) = Len(ManagerOrder)

\* C4: when a manager's upgrade fails, an error-level log line is written
\* before the run ends with a non-zero exit code.
C4_ErrorLoggedOnFailure ==
    (pc = "exited" /\ \E n \in 1..Len(ManagerOrder) : UpgradeFailed(n)) =>
        /\ ExitedNonZero
        /\ \E i \in DOMAIN trace : trace[i].kind = "log" /\ trace[i].level = "ERROR"

\* the exits of the child of the call under test
ExecExits == SelectSeq(trace, LAMBDA e : e.kind = "exit")
ExecRuns == SelectSeq(trace, LAMBDA e : e.kind = "run")
ExecEnded == pc \in {"exec_returned", "exec_raised"}

\* C5: _exec returns (success) exactly when the return code is 0 or is in the
\* acceptable set it was given, and raises otherwise; with the set {1}, codes
\* 0 and 1 return and code 2 raises.
C5_ExecSuccessIffAcceptable ==
    ExecEnded =>
        /\ Len(ExecExits) = 1
        /\ LET r == ExecExits[1].rc
               S == IF call.valid_return_codes.isNone THEN {}
                    ELSE call.valid_return_codes.codes
           IN /\ (pc = "exec_returned") <=> (r = 0 \/ r \in S)
              /\ (pc = "exec_raised") <=> (raised = "CalledProcessError")
              /\ (S = {1} /\ r \in {0, 1}) => pc = "exec_returned"
              /\ (S = {1} /\ r = 2) => pc = "exec_raised"

C5_Witness ==
    /\ pc = "exec_returned"
    /\ ~call.valid_return_codes.isNone
    /\ call.valid_return_codes.codes = {1}
    /\ Len(ExecExits) = 1
    /\ ExecExits[1].rc = 1

\* C6: with elevation requested the command line run is the elevation tool,
\* then "--", then the elements of the original command in order; without it
\* the command line run is the original command.
C6_ElevationPrefix ==
    \A i \in DOMAIN trace :
        trace[i].kind = "run" =>
            IF call.use_sudo
            THEN /\ Len(trace[i].cmd) = Len(call.cmd) + 2
                 /\ trace[i].cmd[1] = "/usr/bin/sudo"
                 /\ trace[i].cmd[2] = "--"
                 /\ \A k \in 1..Len(call.cmd) : trace[i].cmd[k + 2] = call.cmd[k]
            ELSE trace[i].cmd = call.cmd

C6_Witness ==
    /\ call.use_sudo
    /\ call.cmd = <<SUDO_EXE, "--", "true">>
    /\ Len(ExecRuns) = 1
    /\ Len(ExecRuns[1].cmd) = 5

\* The npm outdated query as the trace shows it
CapturedExits == SelectSeq(trace, LAMBDA e : e.kind = "exit" /\ e.out # <<>>)
Installs == SelectSeq(trace, LAMBDA e : e.kind = "run" /\ Contains(e.cmd, "install"))
InstallExits == SelectSeq(trace, LAMBDA e : e.kind = "exit" /\ Contains(e.cmd, "install"))
InstallTarget(e) == e.cmd[Len(e.cmd)]

\* the query ended with an acceptable code and its output was captured
Captured == Len(CapturedExits) = 1 /\ AcceptableExit(CapturedExits[1])
CapturedText == CapturedExits[1].out[1]

\* the entries of a JSON object text: one per name, with the value written last
MemberNames(members) == { members[i][1] : i \in 1..Len(members) }
LastMember(members, name) ==
    members[CHOOSE i \in 1..Len(members) :
                /\ members[i][1] = name
                /\ \A j \in (i + 1)..Len(members) : members[j][1] # name][2]

HasVersions(text) ==
    /\ text.kind = "object"
    /\ {"current", "latest"} \subseteq MemberNames(text.members)

\* the captured text is an object whose entries are objects with current and latest
CapturedVersionsObject ==
    /\ Captured
    /\ CapturedText.kind = "object"
    /\ \A n \in MemberNames(CapturedText.members) :
           HasVersions(LastMember(CapturedText.members, n))

ExpectedTarget(n) ==
    n \o "@" \o LastMember(LastMember(CapturedText.members, n).members, "latest").str

InstallsOf(n) == { i \in 1..Len(Installs) : InstallTarget(Installs[i]) = ExpectedTarget(n) }

NpmReturned == UpgradeReturnedBefore("npm", Len(trace) + 1)
NpmEnded == NpmReturned \/ pc = "exited"

\* C7 as stated: for a captured object with well-formed entries, NPM.upgrade
\* ends having made exactly one install per entry, naming package@latest, and
\* no other install; for the empty object, no install and success.
C7_OneInstallPerEntry ==
    (CapturedVersionsObject /\ NpmEnded) =>
        LET names == MemberNames(CapturedText.members)
        IN /\ \A n \in names : Cardinality(InstallsOf(n)) = 1
           /\ Len(Installs) = Cardinality(names)
           /\ (names = {}) => NpmReturned

\* C7 amended: at most one install per entry, each naming that entry's
\* package@latest, and no other install; an install that exits non-zero is the
\* last one; once every install has exited with 0 and NPM.upgrade has ended,
\* each entry has exactly one install and the upgrade returned; for the empty
\* object, no install and the upgrade returned.
C7_InstallsUntilFirstFailure ==
    CapturedVersionsObject =>
        LET names == MemberNames(CapturedText.members)
        IN /\ \A i \in 1..Len(Installs) :
                  \E n \in names : InstallTarget(Installs[i]) = ExpectedTarget(n)
           /\ \A n \in names : Cardinality(InstallsOf(n)) <= 1
           /\ \A k \in DOMAIN trace :
                  (BadExit(trace[k]) /\ Contains(trace[k].cmd, "install")) =>
                      \A l \in (k + 1)..Len(trace) : trace[l].kind # "run"
                                                     \/ ~Contains(trace[l].cmd, "install")
           /\ ( /\ pc # "NPM_install_exec"
                /\ \A i \in 1..Len(InstallExits) : InstallExits[i].rc = 0 ) =>
                  /\ \A n \in names : Cardinality(InstallsOf(n)) = 1
                  /\ Len(Installs) = Cardinality(names)
                  /\ NpmReturned
           /\ (names = {}) => (Len(Installs) = 0 /\ NpmReturned)

C7_Witness ==
    /\ CapturedVersionsObject
    /\ Cardinality(MemberNames(CapturedText.members)) = 2
    /\ NpmReturned
    /\ Len(Installs) = 2

\* the captured text parses, and is no object or its first entry is no object
ShapeFailure ==
    /\ Captured
    /\ \/ CapturedText.kind \in {"array", "null", "string"}
       \/ /\ CapturedText.kind = "object"
          /\ CapturedText.members # <<>>
          /\ LastMember(CapturedText.members, CapturedText.members[1][1]).kind # "object"

\* how a run ends, as its caller sees it: the exit code, and whether the
\* interpreter died of an uncaught exception
Outcome == [exit_code |-> exit_code, traceback |-> HasTraceback]

\* the outcome of a run in which a command ended with an unacceptable code
ManagerFailedOutcome ==
    [exit_code |-> <<ExitStatus("CalledProcessError")>>, traceback |-> TRUE]

\* C8: output of the wrong shape ends the run abnormally, with an outcome that
\* differs from the one an unacceptable exit code produces.
C8_ShapeFailureDistinct ==
    ShapeFailure =>
        /\ pc = "exited"
        /\ HasTraceback
        /\ Outcome # ManagerFailedOutcome

\* C9: a run that reached the post-upgrade phase has no exception and, once it
\* has exited, exit code 0, whatever is_file() answered; when the marker file
\* is there APT.post_upgrade writes the warning line, and only then.
C9_PostUpgradeNeverFails ==
    /\ (pc = "for_post_upgrade" \/ Len(PostUpgradeCalls) > 0) =>
           /\ raised = "none"
           /\ ~HasTraceback
           /\ pc \in {"for_post_upgrade", "exited"}
           /\ (pc = "exited") => (exit_code = <<0>> /\ PostUpgradeCalls = ManagerOrder)
    /\ \A i \in DOMAIN trace :
           trace[i].kind = "is_file" =>
               /\ i < Len(trace)
               /\ trace[i].ok <=> /\ trace[i + 1].kind = "log"
                                  /\ trace[i + 1].level = "WARNING"
                                  /\ trace[i + 1].text = "A reboot is required."

C9_Witness ==
    /\ ExitedWith(0)
    /\ \E i \in DOMAIN trace : trace[i].kind = "is_file" /\ trace[i].ok
    /\ \E i \in DOMAIN trace : trace[i].kind = "log" /\ trace[i].level = "WARNING"

\* C10: the line written for the reboot-required observation is a warning
\* line, and it is not labelled as an error.
C10_RebootLineIsWarning ==
    \A i \in DOMAIN trace :
        (trace[i].kind = "log" /\ trace[i].text = "A reboot is required.") =>
            /\ trace[i].level = "WARNING"
            /\ trace[i].label # "error: "


\* the words of a command line, separated by blanks
RECURSIVE JoinWords(_)
JoinWords(words) ==
    IF words = <<>> THEN ""
    ELSE IF Len(words) = 1 THEN words[1]
    ELSE words[1] \o " " \o JoinWords(Tail(words))

IsBuild(e) == e.kind = "build"
IsDebugLine(e) == e.kind = "log" /\ e.level = "DEBUG"
IsRun(e) == e.kind = "run"

\* C11: under --verbose every command is preceded, immediately, by one
\* invocation of the message builder and the debug line "executing: " with
\* the quoted command line, and the builder is invoked for nothing else;
\* under the default verbosity no builder is invoked and no debug line is
\* written.
C11_LazyDebugLine ==
    IF level = "DEBUG"
    THEN /\ \A i \in DOMAIN trace :
                IsRun(trace[i]) =>
                    /\ i > 2
                    /\ IsBuild(trace[i - 2])
                    /\ trace[i - 2].text = "executing: " \o JoinWords(trace[i].cmd)
                    /\ IsDebugLine(trace[i - 1])
                    /\ trace[i - 1].text = "executing: " \o JoinWords(trace[i].cmd)
                    /\ trace[i - 1].label = "debug: "
         /\ Len(SelectSeq(trace, IsBuild)) = Len(SelectSeq(trace, IsRun))
         /\ Len(SelectSeq(trace, IsDebugLine)) = Len(SelectSeq(trace, IsRun))
    ELSE /\ level = "INFO"
         /\ \A i \in DOMAIN trace : ~IsBuild(trace[i]) /\ ~IsDebugLine(trace[i])

C11_Witness ==
    /\ level = "DEBUG"
    /\ pc = "exited"
    /\ Len(Installs) = 2
    /\ Len(SelectSeq(trace, IsBuild)) = 6

\* C12: with overrides given, the child's environment has the variables of
\* os.environ and of the overrides, an override's value for every variable it
\* names and the parent's value for every other; without overrides the
\* child's environment is os.environ.
C12_EnvMergedOnTop ==
    \A i \in DOMAIN trace :
        IsRun(trace[i]) =>
            IF call.env.isNone
            THEN trace[i].env = os_environ
            ELSE /\ DOMAIN trace[i].env = (DOMAIN os_environ) \cup (DOMAIN call.env.vars)
                 /\ \A k \in DOMAIN call.env.vars : trace[i].env[k] = call.env.vars[k]
                 /\ \A k \in (DOMAIN os_environ) \ (DOMAIN call.env.vars) :
                        trace[i].env[k] = os_environ[k]

C12_Witness ==
    /\ ~call.env.isNone
    /\ "USE_EMOJI" \in DOMAIN os_environ
    /\ os_environ["USE_EMOJI"] = "1"
    /\ \E i \in DOMAIN trace :
           /\ IsRun(trace[i])
           /\ trace[i].env["USE_EMOJI"] = "0"
           /\ trace[i].env["PATH"] = os_environ["PATH"]


UpgradeCalls ==
    LET calls == SelectSeq(trace, IsUpgradeCall)
    IN [i \in 1..Len(calls) |-> calls[i].pm]

\* C13: upgrades are invoked in list order, each manager's at most once; the
\* event right before an upgrade call is the informational line with that
\* manager's name; and the upgrade of the previous manager in the list has
\* returned before the call.
C13_UpgradesInOrderNameFirst ==
    /\ IsPrefix(UpgradeCalls, ManagerOrder)
    /\ \A i \in DOMAIN trace :
           IsUpgradeCall(trace[i]) =>
               /\ i > 1
               /\ trace[i - 1].kind = "log"
               /\ trace[i - 1].level = "INFO"
               /\ trace[i - 1].text = trace[i].pm
               /\ PositionOf(trace[i].pm) > 1 =>
                      /\ UpgradeReturnedBefore(ManagerOrder[PositionOf(trace[i].pm) - 1], i)
                      /\ i > 2
                      /\ IsReturn(trace[i - 2], "upgrade")
                      /\ trace[i - 2].pm = ManagerOrder[PositionOf(trace[i].pm) - 1]

C13_Witness ==
    /\ UpgradeCalls = ManagerOrder
    /\ Len(Installs) = 1


\* the two ways a run ends
AllSucceededState ==
    /\ ExitedWith(0)
    /\ raised = "none"
    /\ AllUpgradesSucceeded
    /\ PostUpgradeCalls = ManagerOrder
    /\ Len(SelectSeq(trace, LAMBDA e : IsReturn(e, "post_upgrade"))) = Len(ManagerOrder)

OneFailedState ==
    /\ ExitedNonZero
    /\ raised # "none"
    /\ \E n \in 1..Len(ManagerOrder) : UpgradeFailed(n)
    /\ ~AllUpgradesSucceeded
    /\ PostUpgradeCalls = <<>>
    /\ trace[Len(trace)].kind = "traceback"

C15_LevelSetOnceAtStartup ==
    [][/\ level' # level =>
           /\ pc = "parse_args"
           /\ level = "INFO"
           /\ trace = <<>>
       /\ pc # "parse_args" => level' = level
       /\ pc' # "parse_args"]_vars

C15_Witness ==
    /\ level = "DEBUG"
    /\ pc = "exited"
    /\ AllSucceededState
    /\ \E i \in 1..Len(trace) : IsDebugLine(trace[i])

\* the command line of e invokes exe with the subcommand sub
Invokes(e, exe, sub) ==
    \E i \in 1..(Len(e.cmd) - 1) : e.cmd[i] = exe /\ e.cmd[i + 1] = sub

\* the child of e is the elevation tool, which is handed the command
ThroughSudo(e) == Len(e.cmd) >= 3 /\ e.cmd[1] = SUDO_EXE /\ e.cmd[2] = "--"

\* the child of e is the named executable itself
Direct(e, exe) == e.cmd[1] = exe /\ ~Contains(e.cmd, SUDO_EXE)

IsElevatedKind(e) ==
    \/ Invokes(e, APT_GET_EXE, "upgrade")
    \/ Invokes(e, SNAP_EXE, "refresh")
    \/ Invokes(e, NPM_EXE, "install")

IsPlainKind(e) ==
    \/ Invokes(e, NPM_EXE, "outdated")
    \/ Invokes(e, PIPX_EXE, "upgrade-all")

\* C16: every apt-get upgrade, snap refresh and npm install that is started
\* is started through sudo; every npm outdated and pipx upgrade-all is
\* started directly; and nothing else is ever started.
C16_ElevationPerCommand ==
    \A i \in 1..Len(trace) :
        IsRun(trace[i]) =>
            /\ IsElevatedKind(trace[i]) \/ IsPlainKind(trace[i])
            /\ IsElevatedKind(trace[i]) =>
                   /\ ThroughSudo(trace[i])
                   /\ trace[i].cmd[3] \in {APT_GET_EXE, SNAP_EXE, NPM_EXE}
            /\ Invokes(trace[i], NPM_EXE, "outdated") => Direct(trace[i], NPM_EXE)
            /\ Invokes(trace[i], PIPX_EXE, "upgrade-all") => Direct(trace[i], PIPX_EXE)

C16_Witness ==
    /\ pc = "exited"
    /\ \A k \in {<<APT_GET_EXE, "upgrade">>, <<SNAP_EXE, "refresh">>,
                  <<NPM_EXE, "install">>, <<NPM_EXE, "outdated">>,
                  <<PIPX_EXE, "upgrade-all">>} :
          \E i \in 1..Len(trace) : IsRun(trace[i]) /\ Invokes(trace[i], k[1], k[2])
    /\ Len(Installs) = 2

IsQueryExit(e) == e.kind = "exit" /\ Contains(e.cmd, "outdated")
IsInstallExit(e) == e.kind = "exit" /\ Contains(e.cmd, "install")

\* the exception that ended the run right after event k, "" if none did
RaisedAfter(k) ==
    IF k < Len(trace) /\ trace[k + 1].kind = "traceback"
    THEN trace[k + 1].exc ELSE ""

\* C17: an npm outdated query that exits with a code other than 0 or 1 fails
\* the upgrade with the error of the exit code whatever it printed (nothing
\* was parsed: not even unparsable output changes the error) and no install
\* is started; an install that exits with a non-zero code fails the upgrade
\* and no later install is started.
C17_QueryOrInstallFailureStops ==
    \A k \in 1..Len(trace) :
        /\ (IsQueryExit(trace[k]) /\ trace[k].rc \notin {0, 1}) =>
               /\ RaisedAfter(k) = "CalledProcessError"
               /\ raised = "CalledProcessError"
               /\ Len(trace) = k + 1
               /\ Installs = <<>>
               /\ ~NpmReturned
               /\ UpgradeFailed(PositionOf("npm"))
               /\ ExitedNonZero
        /\ (IsInstallExit(trace[k]) /\ trace[k].rc # 0) =>
               /\ RaisedAfter(k) = "CalledProcessError"
               /\ Len(trace) = k + 1
               /\ \A j \in (k + 1)..Len(trace) : ~IsRun(trace[j])
               /\ ~NpmReturned
               /\ UpgradeFailed(PositionOf("npm"))
               /\ ExitedNonZero

\* the query ended with code 2 having printed text that is no JSON
C17_Witness ==
    /\ \E k \in 1..Len(trace) :
          /\ IsQueryExit(trace[k])
          /\ trace[k].rc = 2
          /\ trace[k].out[1].kind = "invalid"
    /\ raised = "CalledProcessError"
    /\ Installs = <<>>

\* the order of the levels, lowest first
LevelOrder == <<"DEBUG", "INFO", "WARNING", "ERROR">>
Rank(l) == CHOOSE n \in 1..Len(LevelOrder) : LevelOrder[n] = l
AtOrAbove(l, cur) == Rank(l) >= Rank(cur)

IsLogCall(e) == e.kind = "call" /\ e.method = "log"
IsLogLine(e) == e.kind = "log"

\* the lines written by the log call at position i: those before the next call
LinesOf(i) ==
    { j \in (i + 1)..Len(trace) :
        /\ IsLogLine(trace[j])
        /\ \A k \in (i + 1)..j : ~IsLogCall(trace[k]) }

\* C18: the verbosity is INFO until it is set; a log call at level L writes
\* one line, at level L, when L is at or above the verbosity, and nothing
\* otherwise; so under INFO and DEBUG, the verbosities main sets, warning and
\* error lines are always written, and a debug line only under DEBUG.
C18_EmitsIffAtOrAbove ==
    /\ pc = "log_start" => level = "INFO"
    /\ \A i \in 1..Len(trace) :
          IsLogCall(trace[i]) =>
              /\ AtOrAbove(trace[i].level, level) <=> Cardinality(LinesOf(i)) = 1
              /\ ~AtOrAbove(trace[i].level, level) <=> LinesOf(i) = {}
              /\ \A j \in LinesOf(i) : trace[j].level = trace[i].level
              /\ (trace[i].level \in {"WARNING", "ERROR"} /\ level \in {"INFO", "DEBUG"})
                     => LinesOf(i) # {}
              /\ (trace[i].level = "DEBUG" /\ level \in {"INFO", "DEBUG"}
                     /\ LinesOf(i) # {}) => level = "DEBUG"
    /\ \A j \in 1..Len(trace) :
          IsLogLine(trace[j]) => \E i \in 1..(j - 1) : IsLogCall(trace[i]) /\ j \in LinesOf(i)

\* under WARNING: an info call wrote nothing, a warning call wrote its line
C18_Witness ==
    /\ level = "WARNING"
    /\ Len(trace) = 3
    /\ IsLogCall(trace[1]) /\ trace[1].level = "INFO" /\ LinesOf(1) = {}
    /\ IsLogCall(trace[2]) /\ trace[2].level = "WARNING" /\ LinesOf(2) = {3}

====
